---- MODULE Spec2Model ----
(***************************************************************************)
(* Model of internal/server/TLS.go of Cloak: the ClientHello decoder, the  *)
(* key-share extractor, the reply composer and PrepareConnection.          *)
(*                                                                         *)
(* Bytes are naturals 0..255.  A Go byte slice is a record                 *)
(* [off, len, cap] over a backing array (a TLA+ sequence); off is the      *)
(* 0-based offset of the slice's first byte in the array.  The nil slice   *)
(* has cap 0.  A run-time panic of a function body is an explicit outcome  *)
(* that the function's deferred recover() turns into an error.             *)
(***************************************************************************)
EXTENDS Naturals, Integers, Sequences, FiniteSets, TLC

\* ------------------------------------------------------------------ bytes
Fill(n, b) == [i \in 1..n |-> b]

\* binary.BigEndian.Uint16
u16(b) == b[1] * 256 + b[2]

\* binary.BigEndian.Uint32
u32(b) == ((b[1] * 256 + b[2]) * 256 + b[3]) * 256 + b[4]

\* binary.BigEndian.PutUint16 of uint16(n)
PutUint16(n) == << ((n % 65536) \div 256), (n % 256) >>

\* ----------------------------------------------------------- Go slices
NilSlice == [off |-> 0, len |-> 0, cap |-> 0]

\* s[lo:hi] is legal iff 0 <= lo <= hi <= cap(s)
CanSlice(s, lo, hi) == 0 <= lo /\ lo <= hi /\ hi <= s.cap

SliceOf(s, lo, hi) == [off |-> s.off + lo, len |-> hi - lo, cap |-> s.cap - lo]

\* the bytes a slice currently denotes in its backing array
Bytes(buf, s) == SubSeq(buf, s.off + 1, s.off + s.len)

\* the bytes of s[lo:hi], for a legal slice expression
BytesAt(buf, s, lo, hi) == SubSeq(buf, s.off + lo + 1, s.off + hi)

\* Go map read: the zero value (nil slice) for a missing key
MapGet(m, k) == IF k \in DOMAIN m THEN m[k] ELSE NilSlice

\* a map write that keeps the value a key already has
MapPutKeepFirst(m, k, v) ==
  [x \in (DOMAIN m) \cup {k} |-> IF x \in DOMAIN m THEN m[x] ELSE v]

\* Go map write
MapPut(m, k, v) == [x \in (DOMAIN m) \cup {k} |-> IF x = k THEN v ELSE m[x]]

EmptyMap == [x \in {} |-> NilSlice]

\* --------------------------------------------------------------- errors
NoErr == "nil"
ErrBadClientHello == "non (or malformed) ClientHello"
ErrNotCloak == "TLS but non-Cloak ClientHello"
ErrReplay == "duplicate random"
ErrBadProxyMethod == "invalid proxy method"
ErrInvalidPubKey == "public key has invalid format"
ErrCiphertextLength == "ciphertext has the wrong length"

\* ------------------------------------------------------ parseExtensions
\* the loop of parseExtensions; panic marks an out-of-range slice expression
RECURSIVE parseExtensionsLoop(_, _, _, _)
parseExtensionsLoop(buf, input, pointer, ret) ==
  IF ~(pointer < input.len) THEN [panic |-> FALSE, ret |-> ret]
  ELSE IF ~CanSlice(input, pointer, pointer + 2) THEN [panic |-> TRUE, ret |-> ret]
  ELSE IF ~CanSlice(input, pointer + 2, pointer + 4) THEN [panic |-> TRUE, ret |-> ret]
  ELSE LET typ == BytesAt(buf, input, pointer, pointer + 2)
           length == u16(BytesAt(buf, input, pointer + 2, pointer + 4))
           p == pointer + 4
       IN IF ~CanSlice(input, p, p + length) THEN [panic |-> TRUE, ret |-> ret]
          ELSE parseExtensionsLoop(buf, input, p + length,
                                   MapPut(ret, typ, SliceOf(input, p, p + length)))

\* the body of parseExtensions without its deferred function
parseExtensionsBody(buf, input) == parseExtensionsLoop(buf, input, 0, EmptyMap)

\* the deferred recover() of parseExtensions
parseExtensionsRecover(r) ==
  [panic |-> FALSE, ret |-> r.ret,
   err |-> IF r.panic THEN "Malformed Extensions" ELSE NoErr]

parseExtensions(buf, input) == parseExtensionsRecover(parseExtensionsBody(buf, input))

\* -------------------------------------------------------- parseKeyShare
X25519Group == <<0, 29>>

RECURSIVE parseKeyShareLoop(_, _, _, _)
parseKeyShareLoop(buf, input, totalLen, pointer) ==
  IF ~(pointer < totalLen)
    THEN [panic |-> FALSE, ret |-> NilSlice, err |-> "x25519 does not exist"]
  ELSE IF ~CanSlice(input, pointer, pointer + 2)
    THEN [panic |-> TRUE, ret |-> NilSlice, err |-> NoErr]
  ELSE IF ~CanSlice(input, pointer + 2, pointer + 4)
    THEN [panic |-> TRUE, ret |-> NilSlice, err |-> NoErr]
  ELSE LET group == BytesAt(buf, input, pointer, pointer + 2)
           length == u16(BytesAt(buf, input, pointer + 2, pointer + 4))
           p == pointer + 4
       IN IF group = X25519Group
            THEN IF length # 32
                   THEN [panic |-> FALSE, ret |-> NilSlice,
                         err |-> "key share length should be 32"]
                 ELSE IF ~CanSlice(input, p, p + length)
                   THEN [panic |-> TRUE, ret |-> NilSlice, err |-> NoErr]
                 ELSE [panic |-> FALSE, ret |-> SliceOf(input, p, p + length), err |-> NoErr]
          ELSE IF ~CanSlice(input, p, p + length)
            THEN [panic |-> TRUE, ret |-> NilSlice, err |-> NoErr]
          ELSE parseKeyShareLoop(buf, input, totalLen, p + length)

parseKeyShareBody(buf, input) ==
  IF ~CanSlice(input, 0, 2) THEN [panic |-> TRUE, ret |-> NilSlice, err |-> NoErr]
  ELSE parseKeyShareLoop(buf, input, u16(BytesAt(buf, input, 0, 2)), 2)

\* the deferred recover() of parseKeyShare
parseKeyShareRecover(r) ==
  [panic |-> FALSE, ret |-> r.ret,
   err |-> IF r.panic THEN "malformed key_share" ELSE r.err]

parseKeyShare(buf, input) == parseKeyShareRecover(parseKeyShareBody(buf, input))

\* ----------------------------------------------------- parseClientHello
\* a nil *ClientHello
NilClientHello ==
  [isNil |-> TRUE, peeled |-> <<>>, handshakeType |-> 0, length |-> 0,
   clientVersion |-> NilSlice, random |-> NilSlice,
   sessionIdLen |-> 0, sessionId |-> NilSlice,
   cipherSuitesLen |-> 0, cipherSuites |-> NilSlice,
   compressionMethodsLen |-> 0, compressionMethods |-> NilSlice,
   extensionsLen |-> 0, extensions |-> EmptyMap]

PanicCH == [panic |-> TRUE, ret |-> NilClientHello, err |-> NoErr]

ErrCH(e) == [panic |-> FALSE, ret |-> NilClientHello, err |-> e]

\* the record layer magic of a TLS 1.3 ClientHello record
HandshakeMagic == <<22, 3, 1>>

\* the body of parseClientHello from the session id on; pointer = 38
parseClientHelloFields(peeled, all, handshakeType, length) ==
  LET pSid == 38 IN
  IF ~(pSid < all.len) THEN PanicCH                       \* peeled[pointer]
  ELSE
  LET sessionIdLen == peeled[pSid + 1]
      pSid1 == pSid + 1
  IN
  IF ~CanSlice(all, pSid1, pSid1 + sessionIdLen) THEN PanicCH
  ELSE
  LET pCs == pSid1 + sessionIdLen IN
  IF ~CanSlice(all, pCs, pCs + 2) THEN PanicCH
  ELSE
  LET cipherSuitesLen == u16(BytesAt(peeled, all, pCs, pCs + 2))
      pCs2 == pCs + 2
  IN
  IF ~CanSlice(all, pCs2, pCs2 + cipherSuitesLen) THEN PanicCH
  ELSE
  LET pCm == pCs2 + cipherSuitesLen IN
  IF ~(pCm < all.len) THEN PanicCH                        \* peeled[pointer]
  ELSE
  LET compressionMethodsLen == peeled[pCm + 1]
      pCm1 == pCm + 1
  IN
  IF ~CanSlice(all, pCm1, pCm1 + compressionMethodsLen) THEN PanicCH
  ELSE
  LET pExt == pCm1 + compressionMethodsLen IN
  IF ~CanSlice(all, pExt, pExt + 2) THEN PanicCH
  ELSE
  LET extensionsLen == u16(BytesAt(peeled, all, pExt, pExt + 2))
      pExt2 == pExt + 2
  IN
  IF ~CanSlice(all, pExt2, all.len) THEN PanicCH          \* peeled[pointer:]
  ELSE
  LET ext == parseExtensions(peeled, SliceOf(all, pExt2, all.len)) IN
  [panic |-> ext.panic, err |-> ext.err,
   ret |-> [isNil |-> FALSE, peeled |-> peeled,
            handshakeType |-> handshakeType, length |-> length,
            clientVersion |-> SliceOf(all, 4, 6),
            random |-> SliceOf(all, 6, 38),
            sessionIdLen |-> sessionIdLen,
            sessionId |-> SliceOf(all, pSid1, pSid1 + sessionIdLen),
            cipherSuitesLen |-> cipherSuitesLen,
            cipherSuites |-> SliceOf(all, pCs2, pCs2 + cipherSuitesLen),
            compressionMethodsLen |-> compressionMethodsLen,
            compressionMethods |-> SliceOf(all, pCm1, pCm1 + compressionMethodsLen),
            extensionsLen |-> extensionsLen,
            extensions |-> ext.ret]]

\* the body of parseClientHello without its deferred function; data is a
\* slice whose capacity equals its length (with spare capacity data[0:3]
\* of a shorter input succeeds and the make() below panics instead)
parseClientHelloBody(data) ==
  IF Len(data) < 3 THEN PanicCH                           \* data[0:3]
  ELSE IF SubSeq(data, 1, 3) # HandshakeMagic
    THEN ErrCH("wrong TLS1.3 handshake magic bytes")
  ELSE IF Len(data) - 5 < 0 THEN PanicCH                  \* make([]byte, len(data)-5)
  ELSE
  LET peeled == SubSeq(data, 6, Len(data))
      all == [off |-> 0, len |-> Len(peeled), cap |-> Len(peeled)]
  IN
  IF ~(0 < all.len) THEN PanicCH                          \* peeled[pointer]
  ELSE
  LET handshakeType == peeled[1] IN
  IF handshakeType # 1 THEN ErrCH("Not a ClientHello")
  ELSE IF ~CanSlice(all, 1, 4) THEN PanicCH
  ELSE
  LET length == u32(<<0>> \o BytesAt(peeled, all, 1, 4)) IN
  IF length # all.len - 4 THEN ErrCH("Hello length doesn't match")
  ELSE IF ~CanSlice(all, 4, 6) THEN PanicCH               \* clientVersion
  ELSE IF ~CanSlice(all, 6, 38) THEN PanicCH              \* random
  ELSE parseClientHelloFields(peeled, all, handshakeType, length)

\* a parseClientHello that lost its deferred recover()
parseClientHelloNoRecover(r) == r

\* the deferred recover() of parseClientHello
parseClientHelloRecover(r) ==
  IF r.panic THEN [panic |-> FALSE, ret |-> r.ret, err |-> "Malformed ClientHello"]
  ELSE r

parseClientHello(data) == parseClientHelloRecover(parseClientHelloBody(data))

\* ------------------------------------------------- reply composition
\* an addRecordLayer that counts its own header into the length
addRecordLayerWholeLength(input, typ, ver) ==
  SubSeq(typ, 1, 1) \o SubSeq(ver, 1, 2) \o PutUint16(Len(input) + 5) \o input

\* addRecordLayer adds record layer to data
addRecordLayer(input, typ, ver) ==
  SubSeq(typ, 1, 1) \o SubSeq(ver, 1, 2) \o PutUint16(Len(input)) \o input

\* util.AESGCMEncrypt: AES-GCM seal, ciphertext of the plaintext's length
\* followed by a 16-byte tag; an invertible stand-in for the cipher
AESGCMEncrypt(nonce, key, plaintext) ==
  IF Len(key) \notin {16, 24, 32} THEN [err |-> "crypto/aes: invalid key size", ret |-> <<>>]
  ELSE
  LET ct == [i \in 1..Len(plaintext) |->
               (plaintext[i] + key[((i - 1) % Len(key)) + 1]
                             + nonce[((i - 1) % Len(nonce)) + 1]) % 256]
      tag == [j \in 1..16 |->
               (key[j] + nonce[((j - 1) % Len(nonce)) + 1]
                       + (IF j <= Len(ct) THEN ct[j] ELSE 0)) % 256]
  IN [err |-> NoErr, ret |-> ct \o tag]

\* util.AESGCMDecrypt, the inverse used by the client and by touchStone
AESGCMDecrypt(nonce, key, ciphertext) ==
  LET n == Len(ciphertext) - 16 IN
  [i \in 1..n |->
     (ciphertext[i] + 512 - key[((i - 1) % Len(key)) + 1]
                          - nonce[((i - 1) % Len(nonce)) + 1]) % 256]

KeyShareHeader == <<0, 51, 0, 36, 0, 29, 0, 32>>       \* hex 00330024001d0020
SupportedVersionsExt == <<0, 43, 0, 2, 3, 4>>          \* hex 002b00020304

\* a composeServerHello that splits the ciphertext 28/20 instead of 20/28
composeServerHelloSplit28(sessionId, sharedSecret, sessionKey, rnd) ==
  LET nonce == rnd.nonce
      enc == AESGCMEncrypt(nonce, sharedSecret, sessionKey)
      encryptedKey == enc.ret
  IN
  IF enc.err # NoErr THEN [panic |-> FALSE, err |-> enc.err, ret |-> <<>>]
  ELSE IF Len(encryptedKey) < 48 THEN [panic |-> TRUE, err |-> NoErr, ret |-> <<>>]
  ELSE
  [panic |-> FALSE, err |-> NoErr,
   ret |-> <<2>> \o <<0, 0, 118>> \o <<3, 3>>
           \o (SubSeq(nonce, 1, 12) \o SubSeq(encryptedKey, 29, 48))
           \o <<32>> \o sessionId \o <<192, 48>> \o <<0>> \o <<0, 46>>
           \o (KeyShareHeader \o SubSeq(encryptedKey, 1, 28) \o rnd.pad)
           \o SupportedVersionsExt]

\* composeServerHello; rnd holds the bytes rand.Read produces
composeServerHello(sessionId, sharedSecret, sessionKey, rnd) ==
  LET nonce == rnd.nonce
      enc == AESGCMEncrypt(nonce, sharedSecret, sessionKey)
      encryptedKey == enc.ret
  IN
  IF enc.err # NoErr THEN [panic |-> FALSE, err |-> enc.err, ret |-> <<>>]
  ELSE IF Len(encryptedKey) < 48 THEN [panic |-> TRUE, err |-> NoErr, ret |-> <<>>]
  ELSE
  LET keyExchange == SubSeq(encryptedKey, 21, 48) \o rnd.pad IN
  [panic |-> FALSE, err |-> NoErr,
   ret |-> <<2>>                                        \* handshake type
           \o <<0, 0, 118>>                             \* length
           \o <<3, 3>>                                  \* server version
           \o (SubSeq(nonce, 1, 12) \o SubSeq(encryptedKey, 1, 20))
           \o <<32>>                                    \* session id length
           \o sessionId
           \o <<192, 48>>                               \* cipher suite
           \o <<0>>                                     \* compression method
           \o <<0, 46>>                                 \* extensions length
           \o (KeyShareHeader \o keyExchange)
           \o SupportedVersionsExt]

\* composeReply
composeReply(ch, sharedSecret, sessionKey, rnd) ==
  LET TLS12 == <<3, 3>>
      sh == composeServerHello(Bytes(ch.peeled, ch.sessionId), sharedSecret, sessionKey, rnd)
  IN
  IF sh.panic \/ sh.err # NoErr THEN sh
  ELSE
  LET shBytes == addRecordLayer(sh.ret, <<22>>, TLS12)
      ccsBytes == addRecordLayer(<<1>>, <<20>>, TLS12)
      encryptedCertBytes == addRecordLayer(rnd.cert, <<23>>, TLS12)
  IN [panic |-> FALSE, err |-> NoErr, ret |-> shBytes \o ccsBytes \o encryptedCertBytes]

\* ------------------------------------------------ unmarshalClientHello
\* the random values ecdh.Unmarshal rejects
InvalidPubKeys == {Fill(32, 255)}

\* ecdh.Unmarshal
ecdhUnmarshal(data) ==
  [ok |-> Len(data) = 32 /\ data \notin InvalidPubKeys, pub |-> data]

\* ecdh.GenerateSharedSecret
GenerateSharedSecret(staticPv, ephPub) ==
  [i \in 1..32 |-> (staticPv[i] + ephPub[i]) % 256]

\* a zero authenticationInfo; nonce is a slice of the ClientHello buffer,
\* ciphertextWithTag is held by value: nothing writes to its array after the
\* append that makes it
NilAI == [sharedSecret |-> <<>>, nonce |-> NilSlice, ciphertextWithTag |-> <<>>]

\* an append with its operands exchanged
GoAppendSwapped(buf, s, x) == [buf |-> buf, val |-> x \o Bytes(buf, s)]

\* an append that writes x over the slice instead of behind it
GoAppendOverSelf(buf, s, x) ==
  IF s.len + Len(x) <= s.cap
    THEN [buf |-> [i \in 1..Len(buf) |->
                     IF i > s.off /\ i <= s.off + Len(x) THEN x[i - s.off] ELSE buf[i]],
          val |-> Bytes(buf, s) \o x]
    ELSE [buf |-> buf, val |-> Bytes(buf, s) \o x]

\* append(s, x...) on a slice s of array buf: in place when cap(s) suffices,
\* into a fresh array otherwise; val is the resulting slice's content
GoAppend(buf, s, x) ==
  IF s.len + Len(x) <= s.cap
    THEN [buf |-> [i \in 1..Len(buf) |->
                     IF i > s.off + s.len /\ i <= s.off + s.len + Len(x)
                       THEN x[i - (s.off + s.len)] ELSE buf[i]],
          val |-> Bytes(buf, s) \o x]
    ELSE [buf |-> buf, val |-> Bytes(buf, s) \o x]

\* unmarshalClientHello; calls lists the collaborators it invoked, ch is the
\* ClientHello as the call leaves it
unmarshalClientHello(ch, staticPv) ==
  LET u == ecdhUnmarshal(Bytes(ch.peeled, ch.random)) IN
  IF ~u.ok
    THEN [panic |-> FALSE, err |-> ErrInvalidPubKey, ai |-> NilAI, ch |-> ch,
          calls |-> <<"ecdh.Unmarshal">>]
  ELSE
  LET nonce == SliceOf(ch.random, 0, 12)
      sharedSecret == GenerateSharedSecret(staticPv, u.pub)
      ksr == parseKeyShare(ch.peeled, MapGet(ch.extensions, <<0, 51>>))
      calls == <<"ecdh.Unmarshal", "ecdh.GenerateSharedSecret", "parseKeyShare">>
      ai0 == [sharedSecret |-> sharedSecret, nonce |-> nonce, ciphertextWithTag |-> <<>>]
  IN
  IF ksr.panic THEN [panic |-> TRUE, err |-> NoErr, ai |-> ai0, ch |-> ch, calls |-> calls]
  ELSE IF ksr.err # NoErr
    THEN [panic |-> FALSE, err |-> ksr.err, ai |-> ai0, ch |-> ch, calls |-> calls]
  ELSE
  LET app == GoAppend(ch.peeled, ch.sessionId, Bytes(ch.peeled, ksr.ret))
      ai1 == [ai0 EXCEPT !.ciphertextWithTag = app.val]
      ch1 == [ch EXCEPT !.peeled = app.buf]
  IN
  [panic |-> FALSE,
   err |-> IF Len(ai1.ciphertextWithTag) # 64 THEN ErrCiphertextLength ELSE NoErr,
   ai |-> ai1, ch |-> ch1, calls |-> calls]

\* ------------------------------------------------------- first packets
\* Inputs: ClientHello records assembled field by field, and damaged
\* variants of them.  Each input carries the fields it was built from.
U24(n) == << (n \div 65536) % 256, (n \div 256) % 256, n % 256 >>

Ext(typ, payload) == typ \o PutUint16(Len(payload)) \o payload

KeyShareEntry(group, payload) == group \o PutUint16(Len(payload)) \o payload

KeyShareExt(entries) == Ext(<<0, 51>>, PutUint16(Len(entries)) \o entries)

SupportedVersions == Ext(<<0, 43>>, <<2, 3, 4>>)

Padding == Ext(<<0, 21>>, <<9, 9, 9>>)

HelloBody(h) ==
  <<3, 3>> \o h.random \o <<Len(h.sid)>> \o h.sid
           \o PutUint16(Len(h.cs)) \o h.cs \o <<Len(h.cm)>> \o h.cm
           \o PutUint16(h.extLen) \o h.exts

HelloRecord(h) ==
  LET body == HelloBody(h)
      hs == <<h.hsType>> \o U24(Len(body) + h.lenDelta) \o body
  IN h.magic \o PutUint16(Len(hs)) \o hs

Ramp(n, base) == [i \in 1..n |-> (base + i) % 256]

GoodSid == Ramp(32, 100)
GoodShare == Ramp(32, 150)
RandomA == Ramp(32, 10)
RandomB == Ramp(32, 60)

\* the extensions region of a well-formed disguise ClientHello
GoodExts(share) ==
  SupportedVersions \o KeyShareExt(KeyShareEntry(X25519Group, share)) \o Padding

HelloFields(random, sid, exts) ==
  [magic |-> HandshakeMagic, hsType |-> 1, lenDelta |-> 0, random |-> random,
   sid |-> sid, cs |-> <<19, 1>>, cm |-> <<0>>, extLen |-> Len(exts), exts |-> exts]

GoodFields(random) == HelloFields(random, GoodSid, GoodExts(GoodShare))

\* an input: the bytes, how they were made, and the fields they carry
Input(kind, data, random, sid, share) ==
  [kind |-> kind, data |-> data, random |-> random, sid |-> sid, share |-> share]

GoodInput(random) ==
  Input("good", HelloRecord(GoodFields(random)), random, GoodSid, GoodShare)

\* the first k bytes of a record, the handshake length patched to fit
Patched(data, k) ==
  LET cut == SubSeq(data, 1, k) IN
  IF k < 9 THEN cut
  ELSE SubSeq(cut, 1, 6) \o U24(k - 9) \o SubSeq(cut, 10, k)

GoodLen == Len(HelloRecord(GoodFields(RandomA)))

\* offset in the record of the first byte of the extensions region
ExtsStart == GoodLen - Len(GoodExts(GoodShare))

\* the cut of a record right after its key_share extension
KeyShareCut ==
  ExtsStart + Len(SupportedVersions) + Len(KeyShareExt(KeyShareEntry(X25519Group, GoodShare)))

\* the cuts of a patched record that leave only whole extensions
WholeCuts == { ExtsStart, ExtsStart + Len(SupportedVersions), KeyShareCut, GoodLen }

WithExts(random, sid, exts) == HelloRecord(HelloFields(random, sid, exts))

\* a key_share extension announcing a 32-byte x25519 share but holding 31 bytes
ShortShare == Ramp(31, 150)
TruncatedKeyShare ==
  Ext(<<0, 51>>, PutUint16(36) \o X25519Group \o <<0, 32>> \o ShortShare)

OtherGroupEntry == KeyShareEntry(<<0, 23>>, <<1, 2, 3, 4>>)

\* a key_share extension whose sub-list length (4) covers only the header of
\* its x25519 entry
UnderstatedKeyShare ==
  Ext(<<0, 51>>, PutUint16(4) \o KeyShareEntry(X25519Group, GoodShare))

\* the share of a second key_share extension
LaterShare == Ramp(32, 30)

\* well-formed inputs a disguise client may send
GoodInputs ==
  { GoodInput(RandomA), GoodInput(RandomB),
    Input("good",
          WithExts(RandomA, GoodSid,
                   KeyShareExt(OtherGroupEntry \o KeyShareEntry(X25519Group, GoodShare))
                     \o SupportedVersions),
          RandomA, GoodSid, GoodShare),
    Input("good",
          HelloRecord([GoodFields(RandomB) EXCEPT !.cs = <<>>, !.cm = <<>>]),
          RandomB, GoodSid, GoodShare),
    Input("good", Patched(HelloRecord(GoodFields(RandomA)), KeyShareCut),
          RandomA, GoodSid, GoodShare) }

\* inputs the Decoder must reject
RejectInputs ==
  { Input("magic", HelloRecord([GoodFields(RandomA) EXCEPT !.magic = m]),
          RandomA, GoodSid, GoodShare) : m \in {<<22, 3, 0>>, <<23, 3, 1>>, <<22, 3, 3>>} }
  \cup
  { Input("type", HelloRecord([GoodFields(RandomA) EXCEPT !.hsType = t]),
          RandomA, GoodSid, GoodShare) : t \in {0, 2} }
  \cup
  { Input("length", HelloRecord([GoodFields(RandomA) EXCEPT !.lenDelta = d]),
          RandomA, GoodSid, GoodShare) : d \in {-1, 1} }
  \cup
  { Input("trunc", SubSeq(HelloRecord(GoodFields(RandomA)), 1, k),
          RandomA, GoodSid, GoodShare) : k \in 0..(GoodLen - 1) }
  \cup
  { Input("truncfix", Patched(HelloRecord(GoodFields(RandomA)), k),
          RandomA, GoodSid, GoodShare) : k \in (9..(GoodLen - 1)) \ WholeCuts }
  \cup
  { Input("garbage", WithExts(RandomA, GoodSid, GoodExts(GoodShare) \o g),
          RandomA, GoodSid, GoodShare) : g \in {<<1>>, <<1, 2>>, <<1, 2, 3>>, <<0, 99, 0, 5, 1, 2>>} }

\* inputs the Decoder accepts although they are not what a client sends
OddInputs ==
  { Input("wholecut", Patched(HelloRecord(GoodFields(RandomA)), k),
          RandomA, GoodSid, <<>>) : k \in WholeCuts \ {GoodLen, KeyShareCut} }
  \cup
  { Input("extlen", HelloRecord([GoodFields(RandomA) EXCEPT !.extLen = n]),
          RandomA, GoodSid, GoodShare) : n \in {0, 65535} }
  \cup
  { Input("sidlen", WithExts(RandomA, Ramp(n, 100), GoodExts(GoodShare)),
          RandomA, Ramp(n, 100), GoodShare) : n \in {0, 31, 33} }
  \cup
  { Input("sharelen",
          WithExts(RandomA, GoodSid,
                   SupportedVersions \o KeyShareExt(KeyShareEntry(X25519Group, Ramp(n, 150)))
                     \o Padding),
          RandomA, GoodSid, Ramp(n, 150)) : n \in {31, 33} }
  \cup
  { Input("nokeyshare", WithExts(RandomA, GoodSid, SupportedVersions \o Padding),
          RandomA, GoodSid, <<>>),
    Input("nox25519", WithExts(RandomA, GoodSid, KeyShareExt(OtherGroupEntry) \o Padding),
          RandomA, GoodSid, <<>>),
    Input("emptykeyshare", WithExts(RandomA, GoodSid, Ext(<<0, 51>>, <<>>) \o Padding),
          RandomA, GoodSid, <<>>),
    Input("shortshare-last", WithExts(RandomA, GoodSid, SupportedVersions \o TruncatedKeyShare),
          RandomA, GoodSid, ShortShare),
    Input("shortshare-mid", WithExts(RandomA, GoodSid, TruncatedKeyShare \o SupportedVersions),
          RandomA, GoodSid, ShortShare),
    Input("badkey", HelloRecord(GoodFields(Fill(32, 255))),
          Fill(32, 255), GoodSid, GoodShare),
    Input("sublist-short",
          WithExts(RandomA, GoodSid, SupportedVersions \o UnderstatedKeyShare \o Padding),
          RandomA, GoodSid, GoodShare),
    Input("dupkeyshare",
          WithExts(RandomA, GoodSid,
                   KeyShareExt(KeyShareEntry(X25519Group, GoodShare)) \o SupportedVersions
                     \o KeyShareExt(KeyShareEntry(X25519Group, LaterShare))),
          RandomA, GoodSid, LaterShare),
    Input("dupkeyshare",
          WithExts(RandomB, GoodSid,
                   KeyShareExt(KeyShareEntry(X25519Group, GoodShare)) \o Padding
                     \o KeyShareExt(OtherGroupEntry)),
          RandomB, GoodSid, <<>>) }

WideInputs == GoodInputs \cup RejectInputs \cup OddInputs

\* the inputs of concurrent attempts: a client's hello, a replay target with
\* the same random, a second client's hello, and a damaged record
ConcurrentInputs ==
  << GoodInput(RandomA), GoodInput(RandomB),
     Input("sidlen", WithExts(RandomA, Ramp(31, 100), GoodExts(GoodShare)),
           RandomA, Ramp(31, 100), GoodShare),
     Input("magic", HelloRecord([GoodFields(RandomA) EXCEPT !.magic = <<22, 3, 0>>]),
           RandomA, GoodSid, GoodShare) >>

\* ------------------------------------------------------------- bounds
NumAttempts == 2
MaxFinish == 2

Attempts == 1..NumAttempts

\* ------------------------------------------------------- server state
\* sta.staticPv
StaticPv == Ramp(32, 200)

\* sta.ProxyBook
ProxyBook == {"shadowsocks"}

\* the proxy methods a client may ask for
ProxyMethods == ProxyBook \cup {"tor"}

\* what rand.Read may deliver to one reply
RandReads(fills) ==
  { [nonce |-> Fill(12, n), pad |-> Fill(4, (n + 1) % 256), cert |-> Fill(68, (n + 2) % 256)]
      : n \in fills }

SessionKeyOf(b) == Ramp(32, b)

VARIABLES
  firstPacket,   \* per attempt: the bytes handed to PrepareConnection
  meta,          \* per attempt: the fields firstPacket was built from
  pc,            \* per attempt: position inside PrepareConnection
  ch,            \* per attempt: the *ClientHello
  ai,            \* per attempt: the authenticationInfo
  info,          \* per attempt: the returned ClientInfo
  err,           \* per attempt: the returned error
  finisher,      \* per attempt: TRUE iff a non-nil finisher was returned
  usedRandom,    \* sta.usedRandom, the replay set
  regLog,        \* the calls of sta.registerRandom in order, with their results
  calls,         \* per attempt: the functions PrepareConnection has invoked
  tsArgs,        \* per attempt: the authenticationInfo values given to touchStone
  writes,        \* per attempt: the conn.Write calls, data and outcome, and the
                 \* session key the invocation that wrote was given
  finRet,        \* per attempt: what each finisher invocation returned
  closePending,  \* per attempt: `go conn.Close()` goroutines not yet run
  closed         \* per attempt: conn.Close() has run

vars == << firstPacket, meta, pc, ch, ai, info, err, finisher, usedRandom, regLog,
           calls, tsArgs, writes, finRet, closePending, closed >>

connVars == << writes, finRet, closePending, closed >>

InitWith(assignments) ==
  /\ \E inp \in assignments :
       /\ firstPacket = [a \in Attempts |-> inp[a].data]
       /\ meta = [a \in Attempts |->
                    [kind |-> inp[a].kind, random |-> inp[a].random,
                     sid |-> inp[a].sid, share |-> inp[a].share]]
  /\ pc = [a \in Attempts |-> "start"]
  /\ ch = [a \in Attempts |-> NilClientHello]
  /\ ai = [a \in Attempts |-> NilAI]
  /\ info = [a \in Attempts |-> [ProxyMethod |-> ""]]
  /\ err = [a \in Attempts |-> NoErr]
  /\ finisher = [a \in Attempts |-> FALSE]
  /\ usedRandom = {}
  /\ regLog = <<>>
  /\ calls = [a \in Attempts |-> <<>>]
  /\ tsArgs = [a \in Attempts |-> <<>>]
  /\ writes = [a \in Attempts |-> <<>>]
  /\ finRet = [a \in Attempts |-> <<>>]
  /\ closePending = [a \in Attempts |-> 0]
  /\ closed = [a \in Attempts |-> FALSE]

\* sta.registerRandom: test and insert under the state's lock
registerRandom(used, r) == [ret |-> r \in used, used |-> used \cup {r}]

\* a PrepareConnection that goes on after a failed parse
ParseOutcomeContinue(r) ==
  IF r.panic THEN [pc |-> "panicked", err |-> NoErr]
  ELSE [pc |-> "parsed", err |-> IF r.err # NoErr THEN ErrBadClientHello ELSE NoErr]

\* a PrepareConnection that surfaces the decoder's own error
ParseOutcomeVerbatim(r) ==
  IF r.panic THEN [pc |-> "panicked", err |-> NoErr]
  ELSE IF r.err # NoErr THEN [pc |-> "returned", err |-> r.err]
  ELSE [pc |-> "parsed", err |-> NoErr]

\* PrepareConnection, lines 256-261
ParseOutcome(r) ==
  IF r.panic THEN [pc |-> "panicked", err |-> NoErr]
  ELSE IF r.err # NoErr THEN [pc |-> "returned", err |-> ErrBadClientHello]
  ELSE [pc |-> "parsed", err |-> NoErr]

Parse(a) ==
  /\ pc[a] = "start"
  /\ LET r == parseClientHello(firstPacket[a])
         o == ParseOutcome(r)
     IN /\ ch' = [ch EXCEPT ![a] = r.ret]
        /\ pc' = [pc EXCEPT ![a] = o.pc]
        /\ err' = [err EXCEPT ![a] = o.err]
  /\ calls' = [calls EXCEPT ![a] = Append(@, "parseClientHello")]
  /\ UNCHANGED << firstPacket, meta, ai, info, finisher, usedRandom, regLog, tsArgs >>
  /\ UNCHANGED connVars

\* a PrepareConnection that ignores what registerRandom returns
ReplayOutcomeIgnored(replay) == [pc |-> "registered", err |-> NoErr]

\* PrepareConnection, lines 263-266
ReplayOutcome(replay) ==
  IF replay THEN [pc |-> "returned", err |-> ErrReplay]
  ELSE [pc |-> "registered", err |-> NoErr]

Register(a) ==
  /\ pc[a] = "parsed"
  /\ LET random == Bytes(ch[a].peeled, ch[a].random)
         r == registerRandom(usedRandom, random)
         o == ReplayOutcome(r.ret)
     IN /\ usedRandom' = r.used
        /\ regLog' = Append(regLog, [attempt |-> a, random |-> random, ret |-> r.ret])
        /\ pc' = [pc EXCEPT ![a] = o.pc]
        /\ err' = [err EXCEPT ![a] = o.err]
  /\ calls' = [calls EXCEPT ![a] = Append(@, "registerRandom")]
  /\ UNCHANGED << firstPacket, meta, ch, ai, info, finisher, tsArgs >>
  /\ UNCHANGED connVars

\* a PrepareConnection that reports every failure of this step as ErrNotCloak
UnmarshalOutcomeAsNotCloak(r) ==
  IF r.panic THEN [pc |-> "panicked", err |-> NoErr]
  ELSE IF r.err # NoErr THEN [pc |-> "returned", err |-> ErrNotCloak]
  ELSE [pc |-> "unmarshalled", err |-> NoErr]

\* PrepareConnection, lines 268-272
UnmarshalOutcome(r) ==
  IF r.panic THEN [pc |-> "panicked", err |-> NoErr]
  ELSE IF r.err # NoErr THEN [pc |-> "returned", err |-> r.err]
  ELSE [pc |-> "unmarshalled", err |-> NoErr]

\* an Unmarshal step that takes the random out of the replay set on failure
UnmarshalRollback(a) ==
  /\ pc[a] = "registered"
  /\ LET r == unmarshalClientHello(ch[a], StaticPv)
         o == UnmarshalOutcome(r)
     IN /\ ch' = [ch EXCEPT ![a] = r.ch]
        /\ ai' = [ai EXCEPT ![a] = r.ai]
        /\ calls' = [calls EXCEPT ![a] = @ \o r.calls]
        /\ pc' = [pc EXCEPT ![a] = o.pc]
        /\ err' = [err EXCEPT ![a] = o.err]
        /\ usedRandom' = IF o.err # NoErr
                           THEN usedRandom \ {Bytes(ch[a].peeled, ch[a].random)}
                           ELSE usedRandom
  /\ UNCHANGED << firstPacket, meta, info, finisher, regLog, tsArgs >>
  /\ UNCHANGED connVars

Unmarshal(a) ==
  /\ pc[a] = "registered"
  /\ LET r == unmarshalClientHello(ch[a], StaticPv)
         o == UnmarshalOutcome(r)
     IN /\ ch' = [ch EXCEPT ![a] = r.ch]
        /\ ai' = [ai EXCEPT ![a] = r.ai]
        /\ calls' = [calls EXCEPT ![a] = @ \o r.calls]
        /\ pc' = [pc EXCEPT ![a] = o.pc]
        /\ err' = [err EXCEPT ![a] = o.err]
  /\ UNCHANGED << firstPacket, meta, info, finisher, usedRandom, regLog, tsArgs >>
  /\ UNCHANGED connVars

\* the verdicts touchStone may give: a ClientInfo or an error
Verdicts ==
  { [err |-> NoErr, info |-> [ProxyMethod |-> m]] : m \in ProxyMethods }
  \cup { [err |-> "touchStone rejects", info |-> [ProxyMethod |-> ""]] }

\* PrepareConnection, lines 273-278
TouchStoneOutcome(v) ==
  IF v.err # NoErr THEN [pc |-> "returned", err |-> ErrNotCloak]
  ELSE [pc |-> "authenticated", err |-> NoErr]

TouchStone(a) ==
  /\ pc[a] = "unmarshalled"
  /\ \E v \in Verdicts :
       LET o == TouchStoneOutcome(v) IN
       /\ info' = [info EXCEPT ![a] = v.info]
       /\ pc' = [pc EXCEPT ![a] = o.pc]
       /\ err' = [err EXCEPT ![a] = o.err]
  /\ tsArgs' = [tsArgs EXCEPT ![a] =
                  Append(@, [nonce |-> Bytes(ch[a].peeled, ai[a].nonce),
                             sharedSecret |-> ai[a].sharedSecret,
                             ciphertextWithTag |-> ai[a].ciphertextWithTag])]
  /\ calls' = [calls EXCEPT ![a] = Append(@, "touchStone")]
  /\ UNCHANGED << firstPacket, meta, ch, ai, finisher, usedRandom, regLog >>
  /\ UNCHANGED connVars

\* a PrepareConnection that builds the finisher before the ProxyBook check
ProxyCheckOutcomeEarlyFinisher(ok) ==
  [err |-> IF ok THEN NoErr ELSE ErrBadProxyMethod, finisher |-> TRUE]

\* a PrepareConnection that accepts every proxy method touchStone resolves
ProxyCheckOutcomeAnyMethod(ok) ==
  [err |-> NoErr, finisher |-> TRUE]

\* PrepareConnection, lines 279-296
ProxyCheckOutcome(ok) ==
  IF ~ok THEN [err |-> ErrBadProxyMethod, finisher |-> FALSE]
  ELSE [err |-> NoErr, finisher |-> TRUE]

ProxyCheck(a) ==
  /\ pc[a] = "authenticated"
  /\ LET o == ProxyCheckOutcome(info[a].ProxyMethod \in ProxyBook) IN
       /\ err' = [err EXCEPT ![a] = o.err]
       /\ finisher' = [finisher EXCEPT ![a] = o.finisher]
  /\ pc' = [pc EXCEPT ![a] = "returned"]
  /\ calls' = [calls EXCEPT ![a] = Append(@, "ProxyBook")]
  /\ UNCHANGED << firstPacket, meta, ch, ai, info, usedRandom, regLog, tsArgs >>
  /\ UNCHANGED connVars

\* the finisher invocations the callers have made so far, over all attempts
RECURSIVE FinisherCalls(_)
FinisherCalls(n) == IF n = 0 THEN 0 ELSE Len(finRet[n]) + FinisherCalls(n - 1)

\* a finisher that returns the write error without closing the connection
FinisherNoClose(a, keys, fills) ==
  /\ pc[a] = "returned"
  /\ finisher[a]
  /\ FinisherCalls(NumAttempts) < MaxFinish
  /\ \E k \in keys, rnd \in RandReads(fills), writeOk \in BOOLEAN :
       LET reply == composeReply(ch[a], ai[a].sharedSecret, SessionKeyOf(k), rnd) IN
       /\ ~reply.panic /\ reply.err = NoErr
       /\ (closed[a] => ~writeOk)
       /\ writes' = [writes EXCEPT ![a] =
                       Append(@, [data |-> reply.ret, ok |-> writeOk,
                                  sessionKey |-> SessionKeyOf(k)])]
       /\ finRet' = [finRet EXCEPT ![a] =
                       Append(@, IF writeOk THEN NoErr ELSE "write error")]
       /\ UNCHANGED << pc, closePending, closed >>
  /\ UNCHANGED << firstPacket, meta, ch, ai, info, err, finisher, usedRandom, regLog,
                  calls, tsArgs >>

\* a finisher that composes and writes on its first invocation only
FinisherOnce(a, keys, fills) ==
  /\ pc[a] = "returned"
  /\ finisher[a]
  /\ FinisherCalls(NumAttempts) < MaxFinish
  /\ \E k \in keys, rnd \in RandReads(fills), writeOk \in BOOLEAN :
       LET reply == composeReply(ch[a], ai[a].sharedSecret, SessionKeyOf(k), rnd) IN
       /\ ~reply.panic /\ reply.err = NoErr
       /\ (closed[a] => ~writeOk)
       /\ IF finRet[a] # <<>>
            THEN /\ finRet' = [finRet EXCEPT ![a] = Append(@, NoErr)]
                 /\ UNCHANGED << writes, closePending >>
            ELSE /\ writes' = [writes EXCEPT ![a] =
                                 Append(@, [data |-> reply.ret, ok |-> writeOk,
                                            sessionKey |-> SessionKeyOf(k)])]
                 /\ finRet' = [finRet EXCEPT ![a] =
                                 Append(@, IF writeOk THEN NoErr ELSE "write error")]
                 /\ closePending' = [closePending EXCEPT ![a] = IF writeOk THEN @ ELSE @ + 1]
       /\ UNCHANGED << pc, closed >>
  /\ UNCHANGED << firstPacket, meta, ch, ai, info, err, finisher, usedRandom, regLog,
                  calls, tsArgs >>

\* the finisher closure, lines 284-295, invoked by the caller; the callers
\* make at most MaxFinish invocations in a run
Finisher(a, keys, fills) ==
  /\ pc[a] = "returned"
  /\ finisher[a]
  /\ FinisherCalls(NumAttempts) < MaxFinish
  /\ \E k \in keys, rnd \in RandReads(fills), writeOk \in BOOLEAN :
       LET reply == composeReply(ch[a], ai[a].sharedSecret, SessionKeyOf(k), rnd) IN
       IF reply.panic
         THEN /\ pc' = [pc EXCEPT ![a] = "panicked"]
              /\ UNCHANGED connVars
       ELSE IF reply.err # NoErr
         THEN /\ finRet' = [finRet EXCEPT ![a] = Append(@, reply.err)]
              /\ UNCHANGED << pc, writes, closePending, closed >>
       ELSE /\ (closed[a] => ~writeOk)
            /\ writes' = [writes EXCEPT ![a] =
                            Append(@, [data |-> reply.ret, ok |-> writeOk,
                                       sessionKey |-> SessionKeyOf(k)])]
            /\ finRet' = [finRet EXCEPT ![a] =
                            Append(@, IF writeOk THEN NoErr ELSE "write error")]
            /\ closePending' = [closePending EXCEPT ![a] = IF writeOk THEN @ ELSE @ + 1]
            /\ UNCHANGED << pc, closed >>
  /\ UNCHANGED << firstPacket, meta, ch, ai, info, err, finisher, usedRandom, regLog,
                  calls, tsArgs >>

\* the goroutine started by `go conn.Close()`
ConnClose(a) ==
  /\ closePending[a] > 0
  /\ closePending' = [closePending EXCEPT ![a] = @ - 1]
  /\ closed' = [closed EXCEPT ![a] = TRUE]
  /\ UNCHANGED << firstPacket, meta, pc, ch, ai, info, err, finisher, usedRandom, regLog,
                  calls, tsArgs, writes, finRet >>

\* ------------------------------------------------------ specifications
\* concurrent connection attempts on one server state
\* the attempts are interchangeable: the assignments of inputs to attempts
\* are taken up to a renaming of the attempts
ConcurrentAssignments ==
  { [a \in Attempts |-> ConcurrentInputs[f[a]]] :
      f \in { g \in [Attempts -> DOMAIN ConcurrentInputs] :
                \A a, b \in Attempts : a < b => g[a] <= g[b] } }

Init == InitWith(ConcurrentAssignments)

Next ==
  \E a \in Attempts :
    \/ Parse(a)
    \/ Register(a)
    \/ Unmarshal(a)
    \/ TouchStone(a)
    \/ ProxyCheck(a)
    \/ Finisher(a, {1}, {7})
    \/ ConnClose(a)

Spec == Init /\ [][Next]_vars

\* one connection attempt over every input of the family
InitDecode == InitWith({ [a \in Attempts |-> p] : p \in WideInputs })

NextDecode ==
  \/ Parse(1)
  \/ Register(1)
  \/ Unmarshal(1)
  \/ TouchStone(1)
  \/ ProxyCheck(1)
  \/ Finisher(1, {1, 2}, {7, 8})
  \/ ConnClose(1)

SpecDecode == InitDecode /\ [][NextDecode]_vars

\* the same with the scheduler running every started goroutine: the
\* `go conn.Close()` of line 291 is eventually executed
SpecLive == InitDecode /\ [][NextDecode]_vars /\ WF_vars(ConnClose(1))

\* ---------------------------------------------------------- properties
InSeq(x, q) == \E i \in DOMAIN q : q[i] = x

Returned(a) == pc[a] = "returned"

\* the indices of registerRandom calls that presented the random v
RegCalls(v) == { i \in DOMAIN regLog : regLog[i].random = v }

\* C1: of all registerRandom calls presenting one random value, in any
\* interleaving of the attempts, exactly one -- the first -- returns "not a
\* replay"; every other returns "replay", and PrepareConnection answers
\* ErrReplay to exactly the attempts whose call returned "replay".
C1_ExactlyOneNotReplay ==
  /\ \A i \in DOMAIN regLog :
       LET same == RegCalls(regLog[i].random) IN
       /\ Cardinality({ j \in same : ~regLog[j].ret }) = 1
       /\ regLog[i].ret <=> (\E j \in same : j < i)
       /\ regLog[i].ret <=> (err[regLog[i].attempt] = ErrReplay)
  /\ \A a \in Attempts : err[a] = ErrReplay => Returned(a) /\ ~finisher[a]

C1_Witness ==
  \E i, j \in DOMAIN regLog :
    /\ i < j
    /\ regLog[i].random = regLog[j].random
    /\ regLog[j].ret
    /\ err[regLog[j].attempt] = ErrReplay

\* C2: the replay set is never rolled back: every random ever registered is
\* still in it, and once an attempt has registered its packet's random, every
\* later attempt with the same first packet is answered ErrReplay, whatever
\* the earlier attempt goes on to return.
C2_NeverRolledBack ==
  \A i \in DOMAIN regLog :
    /\ regLog[i].random \in usedRandom
    /\ \A j \in DOMAIN regLog :
         (i < j /\ firstPacket[regLog[j].attempt] = firstPacket[regLog[i].attempt])
           => err[regLog[j].attempt] = ErrReplay /\ Returned(regLog[j].attempt)


C2_Witness ==
  \E a, b \in Attempts :
    /\ a # b
    /\ firstPacket[a] = firstPacket[b]
    /\ Returned(a) /\ err[a] = ErrCiphertextLength
    /\ Returned(b) /\ err[b] = ErrReplay

\* C3: no reply on a failure path.  The steps of PrepareConnection never
\* write to the connection; a write happens only in an invocation of a
\* finisher that was returned with a nil error; an attempt that ended in an
\* error has a nil finisher and no write.
C3_NoReplyOnFailure ==
  \A a \in Attempts :
    /\ ~Returned(a) => writes[a] = <<>> /\ finRet[a] = <<>> /\ ~finisher[a]
    /\ err[a] # NoErr => ~finisher[a] /\ writes[a] = <<>> /\ finRet[a] = <<>>
    /\ writes[a] # <<>> => Returned(a) /\ finisher[a] /\ err[a] = NoErr
    /\ finisher[a] => Returned(a) /\ err[a] = NoErr
    /\ Len(writes[a]) <= Len(finRet[a])

C3_Witness ==
  \E a, b \in Attempts :
    /\ Returned(a) /\ err[a] = ErrBadProxyMethod /\ writes[a] = <<>>
    /\ Returned(b) /\ err[b] = NoErr /\ Len(writes[b]) = 1

\* the one order in which PrepareConnection invokes its steps
StepOrder ==
  << "parseClientHello", "registerRandom", "ecdh.Unmarshal", "ecdh.GenerateSharedSecret",
     "parseKeyShare", "touchStone", "ProxyBook" >>

\* the registerRandom call of attempt a returned "not a replay"
PassedReplay(a) == \E i \in DOMAIN regLog : regLog[i].attempt = a /\ ~regLog[i].ret

\* C4: PrepareConnection invokes its steps in one fixed order, each at most
\* once; a step runs only when every earlier step succeeded; a failure is
\* terminal; the key agreement and touchStone are never invoked for a packet
\* that fails to parse or whose random is a replay; a finisher is returned
\* only after every step has run.
C4_StateInv ==
  \A a \in Attempts :
    /\ Len(calls[a]) <= Len(StepOrder)
    /\ calls[a] = SubSeq(StepOrder, 1, Len(calls[a]))
    /\ InSeq("registerRandom", calls[a]) => parseClientHello(firstPacket[a]).err = NoErr
    /\ InSeq("ecdh.Unmarshal", calls[a]) => PassedReplay(a)
    /\ InSeq("touchStone", calls[a]) =>
         /\ PassedReplay(a)
         /\ unmarshalClientHello(parseClientHello(firstPacket[a]).ret, StaticPv).err = NoErr
    /\ InSeq("ProxyBook", calls[a]) => info[a].ProxyMethod \in ProxyMethods
    /\ err[a] # NoErr => Returned(a)
    /\ err[a] \in {ErrBadClientHello, ErrReplay} =>
         ~InSeq("ecdh.GenerateSharedSecret", calls[a]) /\ tsArgs[a] = <<>>
    /\ finisher[a] => calls[a] = StepOrder
    /\ Len(tsArgs[a]) <= 1

C4_FixedOrder ==
  /\ [](C4_StateInv)
  /\ [][\A a \in Attempts :
          (Returned(a) /\ err[a] # NoErr) =>
            /\ pc'[a] = pc[a] /\ err'[a] = err[a] /\ calls'[a] = calls[a]
            /\ tsArgs'[a] = tsArgs[a] /\ finisher'[a] = finisher[a]]_vars

C4_Witness ==
  \E a, b \in Attempts :
    /\ finisher[a] /\ calls[a] = StepOrder
    /\ err[b] = ErrReplay /\ calls[b] = SubSeq(StepOrder, 1, 2)

\* the attempt has left KEY_DERIVED without reaching the proxy-method check
FailedInAuthentication(a) ==
  /\ Returned(a)
  /\ InSeq("ecdh.GenerateSharedSecret", calls[a])
  /\ ~InSeq("ProxyBook", calls[a])

\* C5: every failure of the key-share extraction or of the authentication
\* decision in the step KEY_DERIVED -> AUTHENTICATED makes PrepareConnection
\* return ErrNotCloak.
C5_KeyShareFailureIsNotCloak ==
  \A a \in Attempts : FailedInAuthentication(a) => err[a] = ErrNotCloak

\* the kinds of input the Decoder has to reject
RejectKinds == {"magic", "type", "length", "trunc", "truncfix", "garbage"}

\* C6: for every first packet the Decoder rejects (wrong record magic, wrong
\* message type, handshake length mismatch, truncation, malformed extensions
\* region) PrepareConnection returns exactly ErrBadClientHello, with no
\* finisher and without touching the replay set.
C6_RejectedIsBadClientHello ==
  \A a \in Attempts :
    (pc[a] # "start"
       /\ (meta[a].kind \in RejectKinds \/ parseClientHello(firstPacket[a]).err # NoErr))
      => /\ Returned(a)
         /\ err[a] = ErrBadClientHello
         /\ ~finisher[a]
         /\ calls[a] = <<"parseClientHello">>
         /\ regLog = <<>>

C6_Witness ==
  \E a \in Attempts :
    /\ meta[a].kind = "magic"
    /\ SubSeq(firstPacket[a], 1, 3) = <<22, 3, 0>>
    /\ Returned(a)
    /\ err[a] = ErrBadClientHello

\* C7: parseClientHello never lets a panic escape, whatever the bytes; for
\* the empty sequence, every proper prefix of a ClientHello record, every
\* record cut inside a field and every record with a damaged extensions
\* region it returns an error.
C7_DecoderNeverPanics ==
  \A a \in Attempts :
    /\ ~parseClientHello(firstPacket[a]).panic
    /\ ~(pc[a] = "panicked" /\ calls[a] = <<"parseClientHello">>)
    /\ (pc[a] # "start" /\ meta[a].kind \in {"trunc", "truncfix", "garbage"})
         => /\ parseClientHello(firstPacket[a]).err # NoErr
            /\ Returned(a)
            /\ err[a] # NoErr

C7_Witness ==
  \E a \in Attempts :
    /\ meta[a].kind = "trunc"
    /\ Len(firstPacket[a]) < 5
    /\ parseClientHelloBody(firstPacket[a]).panic
    /\ Returned(a)
    /\ err[a] = ErrBadClientHello

\* the ClientHello of attempt a was returned by parseClientHello without error
ParsedOk(a) == pc[a] # "start" /\ ~ch[a].isNil /\ err[a] # ErrBadClientHello

\* the bytes of the buffer that follow the position p
Remaining(c, p) == Len(c.peeled) - p

\* C8: every ClientHello returned without error has a declared handshake
\* length equal to the bytes that follow the length field, and declared
\* session-id, cipher-suite, compression-method and extensions lengths that
\* do not exceed the bytes remaining after the respective length field.
C8_DeclaredLengthsFit ==
  \A a \in Attempts :
    ParsedOk(a) =>
      LET c == ch[a] IN
      /\ c.length = Remaining(c, 4)
      /\ c.sessionIdLen <= Remaining(c, c.sessionId.off)
      /\ c.cipherSuitesLen <= Remaining(c, c.cipherSuites.off)
      /\ c.compressionMethodsLen <= Remaining(c, c.compressionMethods.off)
      /\ c.extensionsLen <=
           Remaining(c, c.compressionMethods.off + c.compressionMethods.len + 2)

\* C9: touchStone is only ever given a ciphertextWithTag of exactly 64
\* bytes, and an attempt whose session-id and x25519 share, as the packet
\* holds them, do not add up to 64 bytes fails before touchStone is called.
C9_OnlySixtyFourBytesReachTouchStone ==
  \A a \in Attempts :
    /\ \A i \in DOMAIN tsArgs[a] : Len(tsArgs[a][i].ciphertextWithTag) = 64
    /\ Len(meta[a].sid \o meta[a].share) # 64 =>
         /\ tsArgs[a] = <<>>
         /\ ~InSeq("touchStone", calls[a])

\* C10: for every well-formed ClientHello (valid public key in random,
\* 32-byte session-id, key_share holding a 32-byte x25519 value)
\* unmarshalClientHello succeeds with ciphertextWithTag = session-id ++
\* key-share value, 64 bytes in that order, and nonce = random[0:12].
C10_PayloadIsSidThenShare ==
  \A a \in Attempts :
    (meta[a].kind = "good" /\ InSeq("parseKeyShare", calls[a])) =>
      /\ pc[a] # "panicked"
      /\ Returned(a) => InSeq("touchStone", calls[a])
      /\ ai[a].ciphertextWithTag = meta[a].sid \o meta[a].share
      /\ Len(ai[a].ciphertextWithTag) = 64
      /\ Bytes(ch[a].peeled, ai[a].nonce) = SubSeq(meta[a].random, 1, 12)
      /\ ai[a].sharedSecret = GenerateSharedSecret(StaticPv, meta[a].random)

C10_Witness ==
  \E a \in Attempts :
    /\ meta[a].kind = "good"
    /\ pc[a] = "unmarshalled"
    /\ Len(ai[a].ciphertextWithTag) = 64
    /\ SubSeq(ai[a].ciphertextWithTag, 33, 64) = GoodShare

\* ------------------------------------------------------------- replies
\* the replies written for attempt a, failed writes included
Replies(a) == { writes[a][i] : i \in DOMAIN writes[a] }

\* a byte sequence read as TLS records {type, version, length, payload};
\* whole is FALSE when the bytes do not end with a record
RECURSIVE RecordsOf(_)
RecordsOf(data) ==
  IF data = <<>> THEN [whole |-> TRUE, recs |-> <<>>]
  ELSE IF Len(data) < 5 \/ Len(data) < 5 + u16(SubSeq(data, 4, 5))
    THEN [whole |-> FALSE, recs |-> <<>>]
  ELSE LET n == u16(SubSeq(data, 4, 5))
           rest == RecordsOf(SubSeq(data, 6 + n, Len(data)))
       IN [whole |-> rest.whole,
           recs |-> << [typ |-> data[1], ver |-> SubSeq(data, 2, 3),
                        payload |-> SubSeq(data, 6, 5 + n)] >> \o rest.recs]

\* the fields of a ServerHello handshake message, read by position
ServerHelloOf(sh) ==
  [msgType |-> sh[1],
   length |-> u32(<<0>> \o SubSeq(sh, 2, 4)),
   afterLength |-> Len(sh) - 4,
   version |-> SubSeq(sh, 5, 6),
   random |-> SubSeq(sh, 7, 38),
   sessionIdLen |-> sh[39],
   sessionId |-> SubSeq(sh, 40, 71),
   cipherSuite |-> SubSeq(sh, 72, 73),
   compression |-> sh[74],
   extensionsLen |-> u16(SubSeq(sh, 75, 76)),
   afterExtensionsLen |-> Len(sh) - 76,
   keyShareHeader |-> SubSeq(sh, 77, 84),
   keyExchange |-> SubSeq(sh, 85, 116),
   supportedVersions |-> SubSeq(sh, 117, Len(sh))]

\* the ServerHello inside a reply
HelloOfReply(data) == ServerHelloOf(RecordsOf(data).recs[1].payload)

C12_CovertKeyRoundTrip ==
  \A a \in Attempts : \A w \in Replies(a) :
    LET sh == HelloOfReply(w.data)
        nonce == SubSeq(sh.random, 1, 12)
        ciphertext == SubSeq(sh.random, 13, 32) \o SubSeq(sh.keyExchange, 1, 28)
        sealed == AESGCMEncrypt(nonce, ai[a].sharedSecret, w.sessionKey)
    IN /\ Len(w.sessionKey) = 32
       /\ Len(ciphertext) = 48
       /\ sealed.err = NoErr
       /\ ciphertext = sealed.ret
       /\ AESGCMDecrypt(nonce, ai[a].sharedSecret, ciphertext) = w.sessionKey
       /\ ai[a].sharedSecret = GenerateSharedSecret(StaticPv, meta[a].random)

C12_Witness ==
  \E a \in Attempts :
    /\ Len(writes[a]) = 2
    /\ writes[a][1].sessionKey # writes[a][2].sessionKey
    /\ SubSeq(HelloOfReply(writes[a][1].data).random, 1, 12)
         # SubSeq(HelloOfReply(writes[a][2].data).random, 1, 12)

\* the values of the fields of a ClientHello
FieldValues(c) ==
  [handshakeType |-> c.handshakeType, length |-> c.length,
   clientVersion |-> Bytes(c.peeled, c.clientVersion),
   random |-> Bytes(c.peeled, c.random),
   sessionIdLen |-> c.sessionIdLen,
   sessionId |-> Bytes(c.peeled, c.sessionId),
   cipherSuitesLen |-> c.cipherSuitesLen,
   cipherSuites |-> Bytes(c.peeled, c.cipherSuites),
   compressionMethodsLen |-> c.compressionMethodsLen,
   compressionMethods |-> Bytes(c.peeled, c.compressionMethods),
   extensionsLen |-> c.extensionsLen,
   extensions |-> [k \in DOMAIN c.extensions |-> Bytes(c.peeled, c.extensions[k])]]

\* C13: the ClientHello is immutable after construction: at every later
\* step of the attempt each of its fields has the value parseClientHello
\* returned it with.
C13_ClientHelloImmutable ==
  \A a \in Attempts :
    ParsedOk(a) => FieldValues(ch[a]) = FieldValues(parseClientHello(firstPacket[a]).ret)

\* C14: in every reply of every finisher invocation the ServerHello
\* session-id is byte for byte the 32-byte session-id of the first packet,
\* although unmarshalClientHello has appended the key share to that slice.
C14_SessionIdEchoed ==
  \A a \in Attempts : \A w \in Replies(a) :
    /\ HelloOfReply(w.data).sessionId = meta[a].sid
    /\ HelloOfReply(w.data).sessionId = SubSeq(firstPacket[a], 45, 76)
    /\ firstPacket[a][44] = 32

C14_Witness ==
  \E a \in Attempts :
    /\ Len(writes[a]) = 2
    /\ ch[a].peeled # SubSeq(firstPacket[a], 6, Len(firstPacket[a]))
    /\ HelloOfReply(writes[a][2].data).sessionId = GoodSid

\* a write of attempt a has failed
WriteFailed(a) == \E i \in DOMAIN writes[a] : ~writes[a][i].ok

\* C15: every finisher invocation makes one write and returns its outcome:
\* the write error when the write failed, nil when it succeeded; it returns
\* without waiting for the close; the connection is closed only after a
\* failed write, and after a failed write it is eventually closed.
C15_Safety ==
  \A a \in Attempts :
    /\ Len(writes[a]) = Len(finRet[a])
    /\ \A i \in DOMAIN writes[a] :
         finRet[a][i] = (IF writes[a][i].ok THEN NoErr ELSE "write error")
    /\ closed[a] => WriteFailed(a)
    /\ closePending[a] > 0 => WriteFailed(a)
    /\ (WriteFailed(a) /\ closePending[a] = 0) => closed[a]

C15_WriteFailureClosesLater ==
  /\ [](C15_Safety)
  /\ [][\A a \in Attempts : finRet'[a] # finRet[a] => closed'[a] = closed[a]]_vars
  /\ \A a \in Attempts : WriteFailed(a) ~> closed[a]

C15_Witness ==
  \E a \in Attempts :
    /\ finRet[a] = <<"write error">>
    /\ closePending[a] = 1
    /\ ~closed[a]

\* touchStone has been invoked for attempt a and has accepted
TouchStoneAccepted(a) ==
  /\ InSeq("touchStone", calls[a])
  /\ info[a].ProxyMethod \in ProxyMethods

\* C16: PrepareConnection returns nil with a finisher only when the proxy
\* method touchStone resolved is a key of ProxyBook; when touchStone accepted
\* and the method is not in ProxyBook it returns ErrBadProxyMethod, an error
\* returned only after touchStone was invoked and accepted.
C16_ProxyMethodMustBeEnabled ==
  \A a \in Attempts :
    /\ (Returned(a) /\ err[a] = NoErr) =>
         (finisher[a] /\ TouchStoneAccepted(a) /\ info[a].ProxyMethod \in ProxyBook)
    /\ finisher[a] => (info[a].ProxyMethod \in ProxyBook /\ err[a] = NoErr)
    /\ (Returned(a) /\ TouchStoneAccepted(a) /\ info[a].ProxyMethod \notin ProxyBook) =>
         (err[a] = ErrBadProxyMethod /\ ~finisher[a])
    /\ err[a] = ErrBadProxyMethod =>
         (TouchStoneAccepted(a) /\ info[a].ProxyMethod \notin ProxyBook)
    /\ ErrBadProxyMethod \notin {ErrBadClientHello, ErrReplay, ErrNotCloak, ErrInvalidPubKey}

C16_Witness ==
  \E a \in Attempts :
    /\ Returned(a)
    /\ err[a] = ErrBadProxyMethod
    /\ info[a].ProxyMethod = "tor"
    /\ calls[a][Len(calls[a])] = "ProxyBook"

\* C17: the finisher has no at-most-once guard: every invocation composes one
\* reply and makes one write, so two invocations of one finisher put two
\* replies on the connection; no step of PrepareConnection itself invokes the
\* finisher.
C17_Counts ==
  \A a \in Attempts :
    /\ Len(writes[a]) = Len(finRet[a])
    /\ \A i \in DOMAIN writes[a] : RecordsOf(writes[a][i].data).whole
                                    /\ Len(RecordsOf(writes[a][i].data).recs) = 3
    /\ ~Returned(a) => (writes[a] = <<>> /\ finRet[a] = <<>>)

C17_EveryInvocationReplies ==
  /\ [](C17_Counts)
  /\ [][\A a \in Attempts :
          /\ pc'[a] # pc[a] => (writes'[a] = writes[a] /\ finRet'[a] = finRet[a])
          /\ finRet'[a] # finRet[a] =>
               (Len(finRet'[a]) = Len(finRet[a]) + 1 /\ Len(writes'[a]) = Len(writes[a]) + 1)]_vars

C17_Witness ==
  \E a \in Attempts :
    /\ finRet[a] = <<NoErr, NoErr>>
    /\ Len(writes[a]) = 2
    /\ writes[a][1].ok /\ writes[a][2].ok

\* the random of the parsed ClientHello of attempt a
RandomOf(a) == Bytes(ch[a].peeled, ch[a].random)

\* C18: when the random of the ClientHello is not a valid public key,
\* PrepareConnection returns ErrInvalidPubKey, an error distinct from
\* ErrBadClientHello and ErrNotCloak; no shared secret is computed, no key
\* share is extracted and touchStone is not called; the random is in the
\* replay set all the same.
C18_InvalidKeyStopsAfterRegistering ==
  \A a \in Attempts :
    /\ (ParsedOk(a) /\ ~ecdhUnmarshal(RandomOf(a)).ok /\ InSeq("ecdh.Unmarshal", calls[a])) =>
         /\ Returned(a)
         /\ err[a] = ErrInvalidPubKey
         /\ calls[a] = <<"parseClientHello", "registerRandom", "ecdh.Unmarshal">>
         /\ ai[a] = NilAI
         /\ tsArgs[a] = <<>>
         /\ ~finisher[a]
         /\ RandomOf(a) \in usedRandom
         /\ ch[a].peeled = SubSeq(firstPacket[a], 6, Len(firstPacket[a]))
    /\ err[a] = ErrInvalidPubKey => (ParsedOk(a) /\ ~ecdhUnmarshal(RandomOf(a)).ok)
    /\ ErrInvalidPubKey \notin {ErrBadClientHello, ErrNotCloak, ErrReplay, ErrBadProxyMethod}

C18_Witness ==
  \E a \in Attempts :
    /\ Returned(a)
    /\ err[a] = ErrInvalidPubKey
    /\ RandomOf(a) = Fill(32, 255)
    /\ RandomOf(a) \in usedRandom

\* the ClientHello of attempt a as parseClientHello returned it
ParsedHello(a) == parseClientHello(firstPacket[a]).ret

\* the key_share extension payload parseKeyShare was given in attempt a
KeyShareInput(a) == MapGet(ParsedHello(a).extensions, <<0, 51>>)

\* what parseKeyShare returned in attempt a
KeyShareResult(a) == parseKeyShare(ParsedHello(a).peeled, KeyShareInput(a))

\* C19: whenever parseKeyShare returns a share, its 32 bytes lie inside the
\* sub-list whose length the first two bytes of the extension payload
\* declare: they start behind the length field and end no later than the
\* declared sub-list does.
C19_ShareInsideDeclaredSubList ==
  \A a \in Attempts :
    (InSeq("parseKeyShare", calls[a]) /\ KeyShareResult(a).err = NoErr) =>
      LET input == KeyShareInput(a)
          totalLen == u16(BytesAt(ParsedHello(a).peeled, input, 0, 2))
          ret == KeyShareResult(a).ret
      IN /\ ret.len = 32
         /\ ret.off >= input.off + 2
         /\ ret.off + ret.len <= input.off + 2 + totalLen

\* a byte sequence is a concatenation of complete {type, length, payload}
\* triples
RECURSIVE IsTriples(_)
IsTriples(r) ==
  \/ r = <<>>
  \/ /\ Len(r) >= 4
     /\ 4 + u16(<<r[3], r[4]>>) <= Len(r)
     /\ IsTriples(SubSeq(r, 5 + u16(<<r[3], r[4]>>), Len(r)))

\* the triples of such a sequence, in order
RECURSIVE TriplesOf(_)
TriplesOf(r) ==
  IF r = <<>> THEN <<>>
  ELSE LET l == u16(<<r[3], r[4]>>) IN
       << [typ |-> SubSeq(r, 1, 2), payload |-> SubSeq(r, 5, 4 + l)] >>
         \o TriplesOf(SubSeq(r, 5 + l, Len(r)))

\* the payload of the last triple of type typ
LastPayload(ts, typ) ==
  LET last == CHOOSE i \in DOMAIN ts :
                /\ ts[i].typ = typ
                /\ \A j \in DOMAIN ts : ts[j].typ = typ => j <= i
  IN ts[last].payload

\* the extensions region of a ClientHello: the bytes behind the extensions
\* length field
ExtensionsRegion(c) ==
  SubSeq(c.peeled, c.compressionMethods.off + c.compressionMethods.len + 3, Len(c.peeled))

\* C20: parseExtensions succeeds exactly when the extensions region is a
\* concatenation of complete {type, length, payload} triples; the map it
\* returns holds, for every type of the region, the payload of the last
\* triple of that type, and a later key_share extension replaces an earlier
\* one in the value unmarshalClientHello authenticates.
C20_TriplesLastWins ==
  \A a \in Attempts :
    (pc[a] # "start" /\ ~ParsedHello(a).isNil) =>
      LET c == ParsedHello(a)
          region == ExtensionsRegion(c)
      IN /\ parseClientHello(firstPacket[a]).err = NoErr <=> IsTriples(region)
         /\ err[a] = ErrBadClientHello <=> ~IsTriples(region)
         /\ IsTriples(region) =>
              /\ DOMAIN c.extensions
                   = { TriplesOf(region)[i].typ : i \in DOMAIN TriplesOf(region) }
              /\ \A t \in DOMAIN c.extensions :
                   Bytes(c.peeled, c.extensions[t]) = LastPayload(TriplesOf(region), t)
         /\ (meta[a].kind = "dupkeyshare" /\ InSeq("parseKeyShare", calls[a])) =>
              IF meta[a].share = <<>>
                THEN err[a] = "x25519 does not exist" /\ Returned(a)
                ELSE /\ err[a] # "x25519 does not exist"
                     /\ ai[a].ciphertextWithTag = meta[a].sid \o LaterShare

C20_Witness ==
  \E a \in Attempts :
    /\ meta[a].kind = "dupkeyshare"
    /\ pc[a] = "unmarshalled"
    /\ Len(TriplesOf(ExtensionsRegion(ParsedHello(a)))) = 3
    /\ ai[a].ciphertextWithTag = GoodSid \o LaterShare

====
